---- MODULE Spec2Model ----
(***************************************************************************)
(* Poker Coach: the Hand Context (GameState), the preflop range tables,    *)
(* the odds calculator and the decision engine, as a state machine.        *)
(*                                                                         *)
(* Numbers.  Chip amounts are Python floats in the source.  Here every     *)
(* amount is an integer number of units, Chip units to the chip, and the   *)
(* inputs are whole chips, so that each product the engine forms (1.5, 2.7,*)
(* 0.6, 0.4, 2.5, 0.8 times an input, and pot/1.5) is an exact integer.    *)
(* Probabilities (equity, pot odds, thresholds) are exact fractions        *)
(* [n |-> numerator, d |-> denominator], d > 0, compared by cross          *)
(* multiplication.  Rounding of IEEE doubles is not modelled.              *)
(*                                                                         *)
(* Text.  A string the source builds or takes apart (a card's shorthand, a *)
(* combo label) is a sequence of one-character strings.                    *)
(***************************************************************************)
EXTENDS Integers, Sequences, FiniteSets, TLC

VARIABLES
    pc,          \* "idle" | "ready" | "rejected" | "done" | "failed"
    game_state,  \* the Hand Context the caller holds, or NoState
    result,      \* what recommend_action returned: [action, amount, reasoning], or NoResult
    error,       \* the exception that reached the caller, or "none"
    branch,      \* the (action, amount) the branch handed to _short_stack_adjustment, or NoBranch
    equity,      \* the value _estimate_equity returned in this call, or NoEquity
    sim,         \* the simulator in this call: [status, shuffles, opponents]
    odds_calls,  \* how many times the call consulted the odds calculator
    ranges_pc,     \* a direct call of PreflopRanges: "idle" | "returned" | "raised"
    ranges_query,  \* the method called and its arguments, or NoQuery
    ranges_answer, \* what it returned: [open, label], or NoAnswer
    simulator,     \* a MonteCarloSimulator: its trial count and random source, or NoSimulator
    run,           \* a call of simulate_equity on it: arguments, locals, position, or NoRun
    previous       \* the result of the run before, when the same run is made again

engine_vars == <<pc, game_state, result, error, branch, equity, sim, odds_calls>>

ranges_vars == <<ranges_pc, ranges_query, ranges_answer>>

mc_vars == <<simulator, run, previous>>

vars == <<engine_vars, ranges_vars, mc_vars>>

\* ------------------------------------------------------------------ bounds
\* Chips in the pot, facing hero, and in a stack; opponents; trials per simulation.
MaxPot == 2
MaxBet == 2
MaxStack == 4
MaxOpponents == 23
NumSimulations == 2

\* Units to the chip: the least scale at which every sizing product is whole.
Chip == 2 * 3 * 5

\* ------------------------------------------------------------------ arithmetic
Min(a, b) == IF a <= b THEN a ELSE b

Max(a, b) == IF a >= b THEN a ELSE b

Rat(n, d) == [n |-> n, d |-> d]

RatAdd(a, b) == [n |-> a.n * b.d + b.n * a.d, d |-> a.d * b.d]

RatMul(a, b) == [n |-> a.n * b.n, d |-> a.d * b.d]

RatGe(a, b) == a.n * b.d >= b.n * a.d

\* ------------------------------------------------------------------ cards
Suits == {"s", "h", "d", "c"}

Ranks == 2..14

RANK_DISPLAY ==
    [r \in Ranks |->
        CASE r = 10 -> "T" [] r = 11 -> "J" [] r = 12 -> "Q" [] r = 13 -> "K" [] r = 14 -> "A"
          [] r = 2 -> "2" [] r = 3 -> "3" [] r = 4 -> "4" [] r = 5 -> "5"
          [] r = 6 -> "6" [] r = 7 -> "7" [] r = 8 -> "8" [] r = 9 -> "9"]

SUIT_SHORT_NAMES == [s \in Suits |-> s]

SUIT_SYMBOLS ==
    [s \in Suits |-> CASE s = "s" -> "spade" [] s = "h" -> "heart" [] s = "d" -> "diamond" [] s = "c" -> "club"]

Card(r, s) == [rank |-> r, suit |-> s]

\* create_deck's full deck: every rank with every suit.
Deck == {Card(r, s) : r \in Ranks, s \in Suits}

\* str.upper and str.lower on the characters that occur in shorthands and labels.
UpperChar(c) ==
    CASE c = "s" -> "S" [] c = "h" -> "H" [] c = "d" -> "D" [] c = "c" -> "C" [] c = "o" -> "O"
      [] c = "t" -> "T" [] c = "j" -> "J" [] c = "q" -> "Q" [] c = "k" -> "K" [] c = "a" -> "A"
      [] OTHER -> c

LowerChar(c) ==
    CASE c = "S" -> "s" [] c = "H" -> "h" [] c = "D" -> "d" [] c = "C" -> "c" [] c = "O" -> "o"
      [] c = "T" -> "t" [] c = "J" -> "j" [] c = "Q" -> "q" [] c = "K" -> "k" [] c = "A" -> "a"
      [] OTHER -> c

Upper(text) == [i \in 1..Len(text) |-> UpperChar(text[i])]

Lower(text) == [i \in 1..Len(text) |-> LowerChar(text[i])]

\* Card.__str__: rank character then suit letter.
CardStr(card) == <<RANK_DISPLAY[card.rank], SUIT_SHORT_NAMES[card.suit]>>

\* What a parser yields where the source raises ValueError, one value per type.
NoRank == 0

NoSuit == "?"

NoLabel == <<"ValueError">>

\* Rank.from_string: upper-case, then the display table read backwards.
\* (The numeric spelling "10".."14" is not produced by CardStr and is left out.)
RankFromString(text) ==
    LET normalized == Upper(text)
        hits == {r \in Ranks : <<RANK_DISPLAY[r]>> = normalized}
    IN  IF hits = {} THEN NoRank ELSE CHOOSE r \in hits : TRUE

\* Suit.from_string: lower-case, then the first suit whose symbol or letter it is.
SuitFromString(ch) ==
    LET normalized == LowerChar(ch)
        hits == {s \in Suits : normalized \in {SUIT_SYMBOLS[s], SUIT_SHORT_NAMES[s]}}
    IN  IF hits = {} THEN NoSuit ELSE CHOOSE s \in hits : TRUE

NoCard == Card(NoRank, NoSuit)

\* Card.from_string: all but the last character is the rank, the last is the suit.
CardFromString(text) ==
    IF Len(text) < 2 THEN NoCard
    ELSE LET rank == RankFromString(SubSeq(text, 1, Len(text) - 1))
             suit == SuitFromString(text[Len(text)])
         IN  IF rank = NoRank \/ suit = NoSuit THEN NoCard ELSE Card(rank, suit)

\* ------------------------------------------------------------------ range tables
Positions == {"UTG", "MP", "CO", "BTN", "SB", "BB"}

Streets == {"PREFLOP", "FLOP", "TURN", "RIVER"}

UTG_OPENING ==
    { <<"A", "A">>, <<"K", "K">>, <<"Q", "Q">>, <<"J", "J">>, <<"T", "T">>, <<"9", "9">>,
      <<"A", "K", "s">>, <<"A", "Q", "s">>, <<"A", "J", "s">>, <<"A", "T", "s">>, <<"A", "K", "o">>, <<"A", "Q", "o">>,
      <<"K", "Q", "s">> }

MP_ADDITIONS ==
    { <<"8", "8">>, <<"7", "7">>, <<"A", "9", "s">>, <<"A", "8", "s">>, <<"A", "J", "o">>, <<"K", "J", "s">>,
      <<"K", "T", "s">>, <<"Q", "J", "s">> }

CO_ADDITIONS ==
    { <<"6", "6">>, <<"5", "5">>, <<"A", "T", "o">>, <<"K", "Q", "o">>, <<"Q", "T", "s">>, <<"J", "T", "s">>,
      <<"T", "9", "s">>, <<"A", "7", "s">>, <<"A", "6", "s">>, <<"A", "5", "s">>, <<"A", "4", "s">>, <<"A", "3", "s">>,
      <<"A", "2", "s">> }

ALL_PAIRS ==
    { <<"A", "A">>, <<"K", "K">>, <<"Q", "Q">>, <<"J", "J">>, <<"T", "T">>, <<"9", "9">>,
      <<"8", "8">>, <<"7", "7">>, <<"6", "6">>, <<"5", "5">>, <<"4", "4">>, <<"3", "3">>,
      <<"2", "2">> }

BROADWAY_SUITS ==
    { <<"A", "K", "s">>, <<"A", "Q", "s">>, <<"A", "J", "s">>, <<"A", "T", "s">>, <<"K", "Q", "s">>, <<"K", "J", "s">>,
      <<"Q", "J", "s">>, <<"J", "T", "s">>, <<"K", "T", "s">>, <<"Q", "T", "s">>, <<"J", "9", "s">>, <<"T", "9", "s">>,
      <<"9", "8", "s">>, <<"8", "7", "s">>, <<"7", "6", "s">>, <<"6", "5", "s">>, <<"5", "4", "s">> }

BROADWAY_OFFSUIT ==
    { <<"A", "K", "o">>, <<"A", "Q", "o">>, <<"A", "J", "o">>, <<"A", "T", "o">>, <<"K", "Q", "o">>, <<"K", "J", "o">>,
      <<"Q", "J", "o">>, <<"J", "T", "o">> }

SUITED_ACES ==
    { <<"A", "9", "s">>, <<"A", "8", "s">>, <<"A", "7", "s">>, <<"A", "6", "s">>, <<"A", "5", "s">>, <<"A", "4", "s">>,
      <<"A", "3", "s">>, <<"A", "2", "s">> }

SB_EXTRA ==
    { <<"K", "T", "o">>, <<"Q", "T", "o">>, <<"J", "T", "o">>, <<"T", "9", "o">>, <<"9", "8", "o">>, <<"A", "9", "o">>,
      <<"A", "8", "o">>, <<"K", "9", "s">>, <<"Q", "9", "s">>, <<"J", "8", "s">>, <<"T", "8", "s">>, <<"9", "7", "s">>,
      <<"8", "6", "s">>, <<"7", "5", "s">> }

BB_EXTRA ==
    { <<"A", "7", "o">>, <<"A", "6", "o">>, <<"A", "5", "o">>, <<"A", "4", "o">>, <<"A", "3", "o">>, <<"A", "2", "o">>,
      <<"K", "9", "o">>, <<"Q", "9", "o">>, <<"J", "9", "o">>, <<"T", "8", "o">>, <<"9", "7", "o">>, <<"8", "6", "o">>,
      <<"7", "6", "o">>, <<"6", "5", "o">> }

\* _normalize_combo_literal: two characters upper-cased; three: the first two
\* upper-cased, the third lower-cased; anything else is rejected.
normalize_combo_literal(hand) ==
    IF Len(hand) = 2 THEN Upper(hand)
    ELSE IF Len(hand) = 3
         THEN <<UpperChar(hand[1]), UpperChar(hand[2]), LowerChar(hand[3])>>
         ELSE NoLabel

freeze(values) == {normalize_combo_literal(v) : v \in values}

\* OPENING_RANGES with the small blind's set built without the suited aces.
OPENING_RANGES_sb_without_suited_aces ==
    [p \in Positions |->
        CASE p = "UTG" -> UTG_OPENING
          [] p = "MP"  -> freeze(UTG_OPENING \cup MP_ADDITIONS)
          [] p = "CO"  -> freeze(UTG_OPENING \cup MP_ADDITIONS \cup CO_ADDITIONS)
          [] p = "BTN" -> freeze(ALL_PAIRS \cup BROADWAY_SUITS \cup BROADWAY_OFFSUIT \cup SUITED_ACES)
          [] p = "SB"  -> freeze(ALL_PAIRS \cup BROADWAY_SUITS \cup BROADWAY_OFFSUIT \cup SB_EXTRA)
          [] p = "BB"  -> freeze(ALL_PAIRS \cup BROADWAY_SUITS \cup BROADWAY_OFFSUIT \cup SUITED_ACES
                                 \cup SB_EXTRA \cup BB_EXTRA)]

OPENING_RANGES ==
    [p \in Positions |->
        CASE p = "UTG" -> UTG_OPENING
          [] p = "MP"  -> freeze(UTG_OPENING \cup MP_ADDITIONS)
          [] p = "CO"  -> freeze(UTG_OPENING \cup MP_ADDITIONS \cup CO_ADDITIONS)
          [] p = "BTN" -> freeze(ALL_PAIRS \cup BROADWAY_SUITS \cup BROADWAY_OFFSUIT \cup SUITED_ACES)
          [] p = "SB"  -> freeze(ALL_PAIRS \cup BROADWAY_SUITS \cup BROADWAY_OFFSUIT \cup SUITED_ACES
                                 \cup SB_EXTRA)
          [] p = "BB"  -> freeze(ALL_PAIRS \cup BROADWAY_SUITS \cup BROADWAY_OFFSUIT \cup SUITED_ACES
                                 \cup SB_EXTRA \cup BB_EXTRA)]

\* PreflopRanges.THREE_BET_RANGES.
THREE_BET_RANGES ==
    [p \in Positions |->
        CASE p = "UTG" -> freeze({ <<"A", "A">>, <<"K", "K">>, <<"Q", "Q">>,
                                   <<"A", "K", "s">>, <<"A", "K", "o">> })
          [] p = "MP"  -> freeze({ <<"A", "A">>, <<"K", "K">>, <<"Q", "Q">>, <<"J", "J">>,
                                   <<"A", "K", "s">>, <<"A", "Q", "s">>, <<"A", "K", "o">> })
          [] p = "CO"  -> freeze({ <<"A", "A">>, <<"K", "K">>, <<"Q", "Q">>, <<"J", "J">>,
                                   <<"T", "T">>, <<"A", "K", "s">>, <<"A", "Q", "s">>,
                                   <<"A", "K", "o">> })
          [] p = "BTN" -> freeze({ <<"A", "A">>, <<"K", "K">>, <<"Q", "Q">>, <<"J", "J">>,
                                   <<"T", "T">>, <<"9", "9">>, <<"A", "K", "s">>,
                                   <<"A", "Q", "s">>, <<"A", "5", "s">>, <<"K", "Q", "s">>,
                                   <<"A", "K", "o">> })
          [] p = "SB"  -> freeze({ <<"A", "A">>, <<"K", "K">>, <<"Q", "Q">>, <<"J", "J">>,
                                   <<"T", "T">>, <<"A", "K", "s">>, <<"A", "Q", "s">>,
                                   <<"A", "K", "o">>, <<"A", "5", "s">>, <<"K", "Q", "s">> })
          [] p = "BB"  -> freeze({ <<"A", "A">>, <<"K", "K">>, <<"Q", "Q">>, <<"J", "J">>,
                                   <<"T", "T">>, <<"A", "K", "s">>, <<"A", "Q", "s">>,
                                   <<"A", "K", "o">>, <<"A", "5", "s">>, <<"K", "Q", "s">> })]

\* PreflopRanges.normalize_hand: both shorthands parsed back into cards; a pair is
\* the rank twice; otherwise the higher rank first and "s" or "o".
\* The label with the cards in the order given, not the higher rank first.
combo_label_unsorted(card1, card2) ==
    IF card1 = NoCard \/ card2 = NoCard THEN NoLabel
    ELSE LET rank1 == UpperChar(RANK_DISPLAY[card1.rank])
             rank2 == UpperChar(RANK_DISPLAY[card2.rank])
             suffix == IF card1.suit = card2.suit THEN "s" ELSE "o"
         IN  IF rank1 = rank2 THEN <<rank1, rank2>> ELSE <<rank1, rank2, suffix>>

combo_label(card1, card2) ==
    IF card1 = NoCard \/ card2 = NoCard THEN NoLabel
    ELSE LET rank1 == UpperChar(RANK_DISPLAY[card1.rank])
             rank2 == UpperChar(RANK_DISPLAY[card2.rank])
             high == IF card1.rank >= card2.rank THEN card1 ELSE card2
             low == IF card1.rank >= card2.rank THEN card2 ELSE card1
             suffix == IF high.suit = low.suit THEN "s" ELSE "o"
         IN  IF rank1 = rank2 THEN <<rank1, rank2>>
             ELSE <<UpperChar(RANK_DISPLAY[high.rank]), UpperChar(RANK_DISPLAY[low.rank]), suffix>>

normalize_hand(card1_str, card2_str) ==
    combo_label(CardFromString(card1_str), CardFromString(card2_str))

\* should_open looking the label up as it was given.
should_open_raw(hand, position) ==
    /\ position \in DOMAIN OPENING_RANGES
    /\ hand \in OPENING_RANGES[position]

\* PreflopRanges.should_open: membership of the normalized label in the position's set.
\* (Every Position is a key of the table, so the unknown-position failure cannot arise.)
should_open(hand, position) ==
    /\ position \in DOMAIN OPENING_RANGES
    /\ normalize_combo_literal(hand) \in OPENING_RANGES[position]

\* PreflopRanges.should_3bet: membership of the normalized label in the position's
\* 3-bet set.
should_3bet(hand, position) ==
    /\ position \in DOMAIN THREE_BET_RANGES
    /\ normalize_combo_literal(hand) \in THREE_BET_RANGES[position]

\* ------------------------------------------------------------------ Hand Context
\* _validate_cards with no limit on the count.
validate_cards_unbounded(cards, max_allowed) == Len(cards) >= 0

\* GameState._validate_cards checks only the count (every entry here is a Card).
validate_cards(cards, max_allowed) == Len(cards) <= max_allowed

\* GameState._validate_no_duplicates: hole cards and board hold no card twice.
validate_no_duplicates(hole_cards, board) ==
    LET combined == hole_cards \o board
    IN  Len(combined) = Cardinality({combined[i] : i \in 1..Len(combined)})

\* _validate_numeric_fields without the comparison of the two opponent counts.
validate_numeric_fields_no_cap(pot_size, bet_to_call, your_stack, opponent_stacks, num_opponents, active_opponents) ==
    /\ pot_size >= 0
    /\ bet_to_call >= 0
    /\ your_stack >= 0
    /\ \A i \in 1..Len(opponent_stacks) : opponent_stacks[i] >= 0
    /\ num_opponents >= 0
    /\ active_opponents >= 0

\* GameState._validate_numeric_fields.
validate_numeric_fields(pot_size, bet_to_call, your_stack, opponent_stacks, num_opponents, active_opponents) ==
    /\ pot_size >= 0
    /\ bet_to_call >= 0
    /\ your_stack >= 0
    /\ \A i \in 1..Len(opponent_stacks) : opponent_stacks[i] >= 0
    /\ num_opponents >= 0
    /\ active_opponents >= 0
    /\ active_opponents <= num_opponents

\* GameState.__post_init__: TRUE when construction returns, FALSE when it raises.
post_init(f) ==
    /\ validate_cards(f.hole_cards, 2)
    /\ validate_cards(f.board, 5)
    /\ validate_no_duplicates(f.hole_cards, f.board)
    /\ validate_numeric_fields(f.pot_size, f.bet_to_call, f.your_stack, f.opponent_stacks,
                               f.num_opponents, f.active_opponents)

\* GameState.effective_stack: the least of hero's stack and the opponents' stacks.
effective_stack(gs) ==
    LET stacks == <<gs.your_stack>> \o gs.opponent_stacks
    IN  CHOOSE m \in {stacks[i] : i \in 1..Len(stacks)} :
            \A i \in 1..Len(stacks) : m <= stacks[i]

\* pot_odds as the bet over the pot alone.
pot_odds_of_pot(gs) ==
    IF gs.bet_to_call <= 0 THEN Rat(0, 1)
    ELSE IF gs.pot_size <= 0 THEN Rat(0, 1)
    ELSE Rat(gs.bet_to_call, gs.pot_size)

\* GameState.pot_odds (the snapshot's own property).
pot_odds(gs) ==
    IF gs.bet_to_call <= 0 THEN Rat(0, 1)
    ELSE IF gs.pot_size + gs.bet_to_call <= 0 THEN Rat(0, 1)
    ELSE Rat(gs.bet_to_call, gs.pot_size + gs.bet_to_call)

\* ------------------------------------------------------------------ odds calculator
\* A value, or the ValueError the calculator raises (ok = FALSE).
Value(v) == [ok |-> TRUE, value |-> v]

Raised == [ok |-> FALSE, value |-> Rat(0, 1)]

\* calculate_pot_odds refusing an empty pot instead of an empty total.
calculate_pot_odds_empty_pot(gs) ==
    LET bet_to_call == Max(gs.bet_to_call, 0)
        pot_size == Max(gs.pot_size, 0)
        denominator == pot_size + bet_to_call
    IN  IF bet_to_call = 0 THEN Value(Rat(0, 1))
        ELSE IF pot_size <= 0 THEN Raised
        ELSE Value(Rat(bet_to_call, denominator))

\* OddsCalculator.calculate_pot_odds.
calculate_pot_odds(gs) ==
    LET bet_to_call == Max(gs.bet_to_call, 0)
        pot_size == Max(gs.pot_size, 0)
        denominator == pot_size + bet_to_call
    IN  IF bet_to_call = 0 THEN Value(Rat(0, 1))
        ELSE IF denominator <= 0 THEN Raised
        ELSE Value(Rat(bet_to_call, denominator))

\* calculate_implied_odds leaving the future bets out of the total.
calculate_implied_odds_no_future(gs, future_bets) ==
    LET bet_to_call == Max(gs.bet_to_call, 0)
        pot_size == Max(gs.pot_size, 0)
        denominator == pot_size + bet_to_call
    IN  IF future_bets < 0 THEN Raised
        ELSE IF bet_to_call = 0 THEN Value(Rat(0, 1))
        ELSE IF denominator <= 0 THEN Raised
        ELSE Value(Rat(bet_to_call, denominator))

\* OddsCalculator.calculate_implied_odds.
calculate_implied_odds(gs, future_bets) ==
    LET bet_to_call == Max(gs.bet_to_call, 0)
        pot_size == Max(gs.pot_size, 0)
        denominator == pot_size + future_bets + bet_to_call
    IN  IF future_bets < 0 THEN Raised
        ELSE IF bet_to_call = 0 THEN Value(Rat(0, 1))
        ELSE IF denominator <= 0 THEN Raised
        ELSE Value(Rat(bet_to_call, denominator))

\* ------------------------------------------------------------------ equity simulator
\* MonteCarloSimulator._ensure_unique: no shorthand occurs twice.
ensure_unique(cards) ==
    Len(cards) = Cardinality({CardStr(cards[i]) : i \in 1..Len(cards)})

\* The order in which create_deck lists the cards: for rank in Rank for suit in Suit.
SuitOrder == <<"s", "h", "d", "c">>

DeckList == [i \in 1..(13 * 4) |-> Card(2 + (i - 1) \div 4, SuitOrder[1 + ((i - 1) % 4)])]

\* MonteCarloSimulator.create_deck: the 52 cards, in order, but the excluded ones.
create_deck(exclude_cards) ==
    LET excluded == {CardStr(exclude_cards[i]) : i \in 1..Len(exclude_cards)}
    IN  SelectSeq(DeckList, LAMBDA card : CardStr(card) \notin excluded)

\* The input checks of simulate_equity with the opponent count raised to 1
\* where the source refuses it.
simulate_equity_accepts_clamped(hero_cards, board, num_opponents) ==
    /\ Len(board) <= 5
    /\ Len(hero_cards) = 2
    /\ ensure_unique(hero_cards \o board)
    /\ Len(create_deck(hero_cards \o board))
           >= Max(0, 5 - Len(board)) + Max(1, num_opponents) * 2

\* The input checks of simulate_equity without the deck-size check.
simulate_equity_accepts_any_deck(hero_cards, board, num_opponents) ==
    /\ Len(board) <= 5
    /\ Len(hero_cards) = 2
    /\ num_opponents >= 1
    /\ ensure_unique(hero_cards \o board)

\* The input checks of simulate_equity, in the source's order: TRUE when the
\* trials may start, FALSE when ValueError is raised before the first trial.
simulate_equity_accepts(hero_cards, board, num_opponents) ==
    /\ Len(board) <= 5
    /\ Len(hero_cards) = 2
    /\ num_opponents >= 1
    /\ ensure_unique(hero_cards \o board)
    /\ Len(create_deck(hero_cards \o board))
           >= Max(0, 5 - Len(board)) + num_opponents * 2

\* MonteCarloSimulator.simulate_equity: every result a run can have.  The shuffles
\* and the ranks the oracle gives decide how many of the NumSimulations trials
\* hero wins and how many hero ties; the equity is (wins + 0.5 ties) / trials.
simulate_equity(hero_cards, board, num_opponents) ==
    IF simulate_equity_accepts(hero_cards, board, num_opponents)
    THEN { [status |-> "ran", shuffles |-> NumSimulations, opponents |-> num_opponents,
            value |-> Rat(2 * c.wins + c.ties, 2 * NumSimulations)] :
               c \in {t \in [wins : 0..NumSimulations, ties : 0..NumSimulations] :
                          t.wins + t.ties <= NumSimulations} }
    ELSE { [status |-> "raised", shuffles |-> 0, opponents |-> num_opponents,
            value |-> Rat(0, 1)] }

\* random.Random, the simulator's random source: a generator whose state is a
\* number below RngModulus; Random(seed) starts it from the seed, each draw
\* moves it on.  (The library's generator is a different one; what the
\* simulator relies on, that the draws are a function of the state, is kept.)
RngModulus == 2 ^ 8

Random(seed) == seed % RngModulus

rng_next(state) == (state * 5 + 1) % RngModulus

randbelow(state, n) == (state \div 4) % n

\* No random source passed to the constructor (rng=None).
NoSeed == -1

\* __init__ always making a fresh source, whatever it was passed.
choose_rng_always_fresh(rng_seed, entropy) == Random(entropy)

\* __init__: self._rng = rng or random.Random(); entropy is what the system
\* seeds a fresh source with.
choose_rng(rng_seed, entropy) == IF rng_seed = NoSeed THEN Random(entropy) ELSE Random(rng_seed)

\* random.shuffle: for i from the last index down to the second, swap x[i] with
\* x[j], j drawn from the indices up to i.  Gives the shuffled list and the
\* generator's state afterwards.
RECURSIVE shuffle_from(_, _, _)
shuffle_from(x, state, i) ==
    IF i < 2 THEN [deck |-> x, rng |-> state]
    ELSE CHOOSE shuffled \in
            { shuffle_from([d EXCEPT ![i] = d[j], ![j] = d[i]], rng_next(s), i - 1) :
                  d \in {x}, s \in {state}, j \in {1 + randbelow(state, i)} } : TRUE

shuffle(x, state) == shuffle_from(x, state, Len(x))

\* deck[:n] without the del that follows it.
deal_without_removing(deck, n) == [cards |-> SubSeq(deck, 1, n), rest |-> deck]

\* deck[:n] and del deck[:n]: the first n cards and what is left.
deal(deck, n) == [cards |-> SubSeq(deck, 1, n), rest |-> SubSeq(deck, n + 1, Len(deck))]

\* HandEvaluator.evaluate_hand: 0 for the ValueError on a wrong count or a
\* repeated card; otherwise the oracle's rank, lower is stronger.  The oracle is
\* an outside library; here its rank falls as the highest of the seven cards
\* and the sum of the two hole cards rise, so that hands win, tie and lose.
evaluate_hand(hole_cards, board) ==
    IF Len(hole_cards) # 2 \/ Len(board) > 5 \/ ~ensure_unique(hole_cards \o board) THEN 0
    ELSE LET top == CHOOSE r \in Ranks :
                        /\ \E i \in 1..Len(hole_cards \o board) : (hole_cards \o board)[i].rank = r
                        /\ \A i \in 1..Len(hole_cards \o board) : (hole_cards \o board)[i].rank <= r
         IN  1 + (14 * 30 + 28) - (30 * top + hole_cards[1].rank + hole_cards[2].rank)

\* min(opponent_ranks).
best_opponent_rank(opponent_ranks) ==
    CHOOSE m \in {opponent_ranks[i] : i \in 1..Len(opponent_ranks)} :
        \A i \in 1..Len(opponent_ranks) : m <= opponent_ranks[i]

\* The trial's count with an equal rank counted as a win.
tally_ties_as_wins(hero_rank, opponent_ranks) ==
    IF hero_rank <= best_opponent_rank(opponent_ranks) THEN "win" ELSE "loss"

\* The trial's count: a win below the best opponent rank, a tie at it,
\* otherwise neither counter moves.
tally(hero_rank, opponent_ranks) ==
    IF hero_rank < best_opponent_rank(opponent_ranks) THEN "win"
    ELSE IF hero_rank = best_opponent_rank(opponent_ranks) THEN "tie"
    ELSE "loss"

\* The simulator left alone by a call.
Unused == [status |-> "unused", shuffles |-> 0, opponents |-> 0, value |-> Rat(0, 1)]

\* ------------------------------------------------------------------ decision engine
\* The premium tier with the suited and offsuit labels left in mixed case.
PREMIUM_HANDS_mixed_case ==
    { <<"A", "A">>, <<"K", "K">>, <<"Q", "Q">>, <<"A", "K", "s">>, <<"A", "K", "o">> }

PREMIUM_HANDS ==
    { <<"A", "A">>, <<"K", "K">>, <<"Q", "Q">>, <<"A", "K", "S">>, <<"A", "K", "O">> }

STRONG_HANDS ==
    { <<"J", "J">>, <<"T", "T">>, <<"9", "9">>, <<"A", "Q", "S">>, <<"A", "J", "S">>,
      <<"A", "Q", "O">>, <<"K", "Q", "S">> }

SPECULATIVE_HANDS ==
    { Upper(h) : h \in
        { <<"A", "T", "s">>, <<"K", "J", "s">>, <<"Q", "J", "s">>, <<"J", "T", "s">>,
          <<"T", "9", "s">>, <<"9", "8", "s">>, <<"8", "7", "s">>, <<"A", "5", "s">>,
          <<"A", "4", "s">>, <<"A", "3", "s">>, <<"A", "2", "s">>, <<"K", "T", "s">>,
          <<"Q", "T", "s">> } }

\* _estimate_equity answering a failed simulation with a coin flip, 0.5.
estimate_equity_neutral_half(gs, sim_run) ==
    IF sim_run.status = "raised"
    THEN [ok |-> TRUE, value |-> Rat(1, 2), run |-> sim_run]
    ELSE [ok |-> TRUE, value |-> sim_run.value, run |-> sim_run]

\* _estimate_equity putting certainty, 1.0, in place of a failed simulation.
estimate_equity_optimistic(gs, sim_run) ==
    IF sim_run.status = "raised"
    THEN [ok |-> TRUE, value |-> Rat(1, 1), run |-> sim_run]
    ELSE [ok |-> TRUE, value |-> sim_run.value, run |-> sim_run]

\* DecisionEngine._estimate_equity: the simulator against max(1, active_opponents)
\* opponents (SimulatorRuns below); its ValueError is caught and becomes equity
\* 0.0.  sim_run is the simulator's result; ok = FALSE would be an exception
\* leaving _estimate_equity.
estimate_equity(gs, sim_run) ==
    IF sim_run.status = "raised"
    THEN [ok |-> TRUE, value |-> Rat(0, 1), run |-> sim_run]
    ELSE [ok |-> TRUE, value |-> sim_run.value, run |-> sim_run]

\* The results the simulator can give the engine for this Hand Context.
SimulatorRuns(gs) == simulate_equity(gs.hole_cards, gs.board, Max(1, gs.active_opponents))

\* _multiway_adjustment charging 0.05 for every opponent, the first included.
multiway_adjustment_every_opponent(opponents) == Rat(Max(0, opponents) * 5, 100)

\* DecisionEngine._multiway_adjustment: 0.05 per opponent beyond the first.
multiway_adjustment(opponents) == Rat(Max(0, opponents - 1) * 5, 100)

\* _infer_big_blind without the floor of one chip.
infer_big_blind_no_floor(gs) ==
    IF gs.pot_size > 0 THEN (gs.pot_size * 2) \div 3 ELSE 10 * Chip

\* DecisionEngine._infer_big_blind, in units: max(1.0, pot/1.5), or 10.0.
infer_big_blind(gs) ==
    IF gs.pot_size > 0 THEN Max(Chip, (gs.pot_size * 2) \div 3) ELSE 10 * Chip

\* _suggest_open_raise without the cap at hero's stack.
suggest_open_raise_uncapped(gs) == (27 * infer_big_blind(gs)) \div 10

\* DecisionEngine._suggest_open_raise: 2.7 big blinds, at most hero's stack.
suggest_open_raise(gs) == Min((27 * infer_big_blind(gs)) \div 10, gs.your_stack)

\* DecisionEngine._suggest_3bet_size.
\* _suggest_3bet_size matching the bet instead of tripling it.
suggest_3bet_size_flat(gs) ==
    LET base == IF gs.bet_to_call > 0 THEN gs.bet_to_call ELSE infer_big_blind(gs) * 3
    IN  Min(base, gs.your_stack)

suggest_3bet_size(gs) ==
    LET base == IF gs.bet_to_call > 0 THEN gs.bet_to_call * 3 ELSE infer_big_blind(gs) * 3
    IN  Min(base, gs.your_stack)

\* _suggest_value_bet taking the smaller of the two fractions of the pot.
suggest_value_bet_half_pot(gs) ==
    Min(Min((gs.pot_size * 6) \div 10, (gs.pot_size * 5) \div 10), gs.your_stack)

\* DecisionEngine._suggest_value_bet: max(0.6 pot, 0.5 pot), at most hero's stack.
suggest_value_bet(gs) ==
    Min(Max((gs.pot_size * 6) \div 10, (gs.pot_size * 5) \div 10), gs.your_stack)

\* DecisionEngine._suggest_small_bet.
suggest_small_bet(gs) ==
    LET amount == (gs.pot_size * 4) \div 10
    IN  IF amount > 0 THEN Min(amount, gs.your_stack) ELSE 0

\* DecisionEngine._suggest_raise_size: max(2.5 bet, 0.8 pot), at most hero's stack.
suggest_raise_size(gs) ==
    Min(Max((gs.bet_to_call * 25) \div 10, (gs.pot_size * 8) \div 10), gs.your_stack)

DecisionResult(action, amount, reasoning) ==
    [action |-> action, amount |-> amount, reasoning |-> reasoning]

\* The threshold without the bet hero faces: 1.5 pot.
short_stack_threshold_pot_only(gs) == (gs.pot_size * 3) \div 2

\* The threshold of _short_stack_adjustment: max(1.5 pot, bet_to_call).
short_stack_threshold(gs) == Max((gs.pot_size * 3) \div 2, gs.bet_to_call)

\* _short_stack_adjustment overriding only strictly below the threshold.
short_stack_adjustment_strict(gs, action, amount, reasoning) ==
    IF effective_stack(gs) < short_stack_threshold(gs)
    THEN DecisionResult("all_in", effective_stack(gs), Append(reasoning, "short_stack"))
    ELSE DecisionResult(action, Min(amount, gs.your_stack), reasoning)

\* _short_stack_adjustment also going all-in when the size asked for takes
\* hero's whole stack.
short_stack_adjustment_shoves_capped(gs, action, amount, reasoning) ==
    IF effective_stack(gs) <= short_stack_threshold(gs) \/ amount >= gs.your_stack
    THEN DecisionResult("all_in", effective_stack(gs), Append(reasoning, "short_stack"))
    ELSE DecisionResult(action, Min(amount, gs.your_stack), reasoning)

\* DecisionEngine._short_stack_adjustment.
short_stack_adjustment(gs, action, amount, reasoning) ==
    IF effective_stack(gs) <= short_stack_threshold(gs)
    THEN DecisionResult("all_in", effective_stack(gs), Append(reasoning, "short_stack"))
    ELSE DecisionResult(action, Min(amount, gs.your_stack), reasoning)

\* What a branch decides: the action and amount, the rationale so far, whether it
\* returns through _short_stack_adjustment (adjust), the equity estimate and the
\* simulator's run behind it, the number of odds computations, and whether an
\* exception ends the call.
Decided(action, amount, reasoning, adjust, est, odds) ==
    [action |-> action, amount |-> amount, reasoning |-> reasoning, adjust |-> adjust,
     run |-> est.run, equity |-> est.value, odds |-> odds, raised |-> FALSE]

Failed(est, odds) ==
    [action |-> "none", amount |-> 0, reasoning |-> <<>>, adjust |-> FALSE,
     run |-> est.run, equity |-> est.value, odds |-> odds, raised |-> TRUE]

\* No estimate asked for: the simulator is left alone.
NoEstimate == [ok |-> TRUE, value |-> Rat(0, 1), run |-> Unused]

\* DecisionEngine._recommend_preflop from its first decision on: combo is the
\* hand's label, odds the pot odds when a bet is faced, est the equity estimate
\* (read only where the code asks for it).
preflop_decision(gs, combo, odds, est) ==
    LET bet_to_call == gs.bet_to_call
        asked == IF bet_to_call > 0 THEN 1 ELSE 0
        r1 == IF bet_to_call > 0 THEN <<"combo", "position", "pot_odds">>
              ELSE <<"combo", "position">>
        normalized_combo == Upper(combo)
        equity_ == est.value
        required_equity == RatAdd(odds.value, multiway_adjustment(gs.active_opponents))
        r2 == r1 \o <<"equity", "required_equity">>
        implied == calculate_implied_odds(gs, gs.pot_size \div 2)
        r3 == Append(r2, "implied_odds")
    IN  IF combo = NoLabel \/ ~odds.ok THEN Failed(NoEstimate, asked)
        ELSE IF bet_to_call = 0
        THEN IF should_open(combo, gs.your_position)
             THEN Decided("raise", suggest_open_raise(gs), Append(r1, "open_range"),
                          FALSE, NoEstimate, asked)
             ELSE Decided("fold", 0, Append(r1, "outside_range"), FALSE, NoEstimate, asked)
        ELSE IF normalized_combo \in PREMIUM_HANDS
        THEN Decided("raise", suggest_3bet_size(gs), Append(r1, "premium"), TRUE, NoEstimate, asked)
        ELSE IF ~est.ok THEN Failed(est, asked)
        ELSE IF /\ normalized_combo \in STRONG_HANDS
                /\ RatGe(equity_, RatAdd(required_equity, Rat(1, 10)))
        THEN Decided("raise", suggest_3bet_size(gs), Append(r2, "aggression"), TRUE, est, asked)
        ELSE IF normalized_combo \in STRONG_HANDS /\ RatGe(equity_, required_equity)
        THEN Decided("call", Min(bet_to_call, gs.your_stack), Append(r2, "enough_to_call"),
                     TRUE, est, asked)
        ELSE IF normalized_combo \in SPECULATIVE_HANDS
        THEN IF ~implied.ok THEN Failed(est, asked + 1)
             ELSE IF RatGe(equity_, implied.value)
             THEN Decided("call", Min(bet_to_call, gs.your_stack),
                          Append(r3, "speculative_call"), TRUE, est, asked + 1)
             ELSE Decided("fold", 0, Append(r3, "insufficient"), FALSE, est, asked + 1)
        ELSE Decided("fold", 0, Append(r2, "insufficient"), FALSE, est, asked)

\* The preflop branch of DecisionEngine._recommend_preflop, up to its return.
preflop_branch(gs, sim_run) ==
    preflop_decision(gs,
        IF Len(gs.hole_cards) = 2
        THEN normalize_hand(CardStr(gs.hole_cards[1]), CardStr(gs.hole_cards[2]))
        ELSE NoLabel,
        IF gs.bet_to_call > 0 THEN calculate_pot_odds(gs) ELSE Value(Rat(0, 1)),
        estimate_equity(gs, sim_run))

\* DecisionEngine._recommend_postflop from its first decision on: est is the
\* equity estimate, odds the pot odds when a bet is faced.
postflop_decision(gs, est, odds) ==
    LET r0 == IF Len(gs.board) < 3 /\ gs.street # "PREFLOP" THEN <<"incomplete_board">> ELSE <<>>
        equity_ == est.value
        asked == IF gs.bet_to_call > 0 THEN 1 ELSE 0
        multiway_adjust == multiway_adjustment(gs.active_opponents)
        r1 == r0 \o <<"equity", "pot_odds", "multiway">>
        small == suggest_small_bet(gs)
        required_equity == RatAdd(RatMul(odds.value, Rat(115, 100)), multiway_adjust)
        r2 == Append(r1, "required_equity")
    IN  IF ~est.ok THEN Failed(est, 0)
        ELSE IF ~odds.ok THEN Failed(est, asked)
        ELSE IF gs.bet_to_call = 0
        THEN IF RatGe(equity_, RatAdd(Rat(65, 100), multiway_adjust))
             THEN Decided("bet", suggest_value_bet(gs), Append(r1, "value_bet"), TRUE, est, asked)
             ELSE IF RatGe(equity_, RatAdd(Rat(45, 100), multiway_adjust))
             THEN IF small > 0
                  THEN Decided("bet", small, Append(r1, "small_bet"), TRUE, est, asked)
                  ELSE Decided("check", 0, Append(r1, "small_bet"), FALSE, est, asked)
             ELSE Decided("check", 0, Append(r1, "pot_control"), FALSE, est, asked)
        ELSE IF RatGe(equity_, required_equity)
        THEN IF RatGe(equity_, RatAdd(Rat(70, 100), multiway_adjust))
             THEN Decided("raise", suggest_raise_size(gs), Append(r2, "value_raise"),
                          TRUE, est, asked)
             ELSE Decided("call", Min(gs.bet_to_call, gs.your_stack),
                          Append(r2, "profitable_call"), TRUE, est, asked)
        ELSE Decided("fold", 0, Append(r2, "below_required"), FALSE, est, asked)

\* The postflop branch of DecisionEngine._recommend_postflop, up to its return.
postflop_branch(gs, sim_run) ==
    postflop_decision(gs, estimate_equity(gs, sim_run),
        IF gs.bet_to_call > 0 THEN calculate_pot_odds(gs) ELSE Value(Rat(0, 1)))

\* What the branch returns: through _short_stack_adjustment, or as it stands.
Returned(gs, b) ==
    IF b.adjust THEN short_stack_adjustment(gs, b.action, b.amount, b.reasoning)
    ELSE DecisionResult(b.action, b.amount, b.reasoning)

\* recommend_action refusing only an empty hand.
recommend_action_unchecked(gs, sim_run) ==
    IF Len(gs.hole_cards) = 0 THEN Failed(NoEstimate, 0)
    ELSE IF gs.street = "PREFLOP" THEN preflop_branch(gs, sim_run)
    ELSE postflop_branch(gs, sim_run)

\* recommend_action taking every street down the postflop branch.
recommend_action_always_postflop(gs, sim_run) ==
    IF Len(gs.hole_cards) # 2 THEN Failed(NoEstimate, 0)
    ELSE postflop_branch(gs, sim_run)

\* DecisionEngine.recommend_action: the hole-card check, then the street's branch.
recommend_action(gs, sim_run) ==
    IF Len(gs.hole_cards) # 2 THEN Failed(NoEstimate, 0)
    ELSE IF gs.street = "PREFLOP" THEN preflop_branch(gs, sim_run)
    ELSE postflop_branch(gs, sim_run)

\* ------------------------------------------------------------------ inputs
As == Card(14, "s")
Ad == Card(14, "d")
Ks == Card(13, "s")
Jh == Card(11, "h")
Jd == Card(11, "d")
Js == Card(11, "s")
Ts == Card(10, "s")
Sevenc == Card(7, "c")
Twod == Card(2, "d")

\* Hole cards offered to the constructor: none, one, a premium pair, a premium
\* suited hand given low card first, a strong pair, a speculative suited
\* connector, a hand in no range, a card twice, three cards.
HoleHands ==
    { <<>>, <<As>>, <<As, Ad>>, <<Ks, As>>, <<Jh, Jd>>, <<Ts, Js>>, <<Sevenc, Twod>>,
      <<As, As>>, <<As, Ad, Ks>> }

FullBoard == <<Card(2, "c"), Card(7, "d"), Card(9, "s"), Card(4, "h"), Card(5, "h"), Card(6, "h")>>

\* Boards offered: nothing, a flop, a turn, a river, six cards, a flop holding hero's ace.
Boards ==
    { SubSeq(FullBoard, 1, n) : n \in {0, 3, 4, 5, 6} } \cup { <<As, Card(7, "d"), Card(9, "s")>> }

\* Whole chips from -1 (refused by the constructor) to max, in units.
ChipCounts(max) == {Chip * k : k \in -1..max}

OpponentStackLists == { <<>>, <<-Chip>>, <<Chip>> }

OpponentCounts == {-1, 0, 2, MaxOpponents}

\* The constructor's arguments.  Preflop every position meets every hand; after
\* the flop, where the engine reads neither the position nor the ranks of the
\* hole cards, the position is the dataclass default and the boards vary.
PreflopArguments ==
    [hole_cards : HoleHands, board : {<<>>, SubSeq(FullBoard, 1, 3)}, street : {"PREFLOP"},
     pot_size : ChipCounts(MaxPot), bet_to_call : ChipCounts(MaxBet),
     your_stack : ChipCounts(MaxStack), opponent_stacks : OpponentStackLists,
     your_position : Positions, num_opponents : {-1, 0, MaxOpponents},
     active_opponents : OpponentCounts]

PostflopArguments ==
    [hole_cards : {<<>>, <<As>>, <<As, Ad>>}, board : Boards,
     street : Streets \ {"PREFLOP"},
     pot_size : ChipCounts(MaxPot), bet_to_call : ChipCounts(MaxBet),
     your_stack : ChipCounts(MaxStack), opponent_stacks : OpponentStackLists,
     your_position : {"BTN"}, num_opponents : {-1, 0, MaxOpponents},
     active_opponents : OpponentCounts]

\* ------------------------------------------------------------------ state machine
NoState ==
    [hole_cards |-> <<>>, board |-> <<>>, street |-> "none", pot_size |-> 0, bet_to_call |-> 0,
     your_stack |-> 0, opponent_stacks |-> <<>>, your_position |-> "none",
     num_opponents |-> 0, active_opponents |-> 0]

NoResult == DecisionResult("none", 0, <<>>)

NoBranch == [action |-> "none", amount |-> 0, adjust |-> FALSE]

NoQuery ==
    [method |-> "none", hand |-> <<>>, position |-> "none", card1_str |-> <<>>, card2_str |-> <<>>]

NoAnswer == [open |-> FALSE, label |-> <<>>]

RangesIdle == ranges_pc = "idle" /\ ranges_query = NoQuery /\ ranges_answer = NoAnswer

EngineIdle ==
    /\ pc = "idle"
    /\ game_state = NoState
    /\ result = NoResult
    /\ error = "none"
    /\ branch = NoBranch
    /\ equity = Rat(0, 1)
    /\ sim = [status |-> "unused", shuffles |-> 0, opponents |-> 0]
    /\ odds_calls = 0

NoSimulator ==
    [pc |-> "none", num_simulations |-> 0, rng_seed |-> NoSeed, rng |-> 0, shuffles |-> 0]

NoRun ==
    [pc |-> "none", hero_cards |-> <<>>, board |-> <<>>, num_opponents |-> 0,
     base_deck |-> <<>>, trial |-> 0, shuffled |-> <<>>, deck |-> <<>>, sim_board |-> <<>>,
     hero_rank |-> 0, opponent_hands |-> <<>>, opponent_ranks |-> <<>>,
     wins |-> 0, ties |-> 0, equity |-> Rat(0, 1)]

NoPrevious == [seen |-> FALSE, wins |-> 0, ties |-> 0, equity |-> Rat(0, 1)]

SimulatorIdle == simulator = NoSimulator /\ run = NoRun /\ previous = NoPrevious

Init == EngineIdle /\ RangesIdle /\ SimulatorIdle

\* GameState(...): the caller builds a Hand Context; __post_init__ accepts or raises.
NewGameState ==
    /\ pc = "idle"
    /\ \E f \in PreflopArguments \cup PostflopArguments :
        IF post_init(f)
        THEN pc' = "ready" /\ game_state' = f /\ error' = "none"
        ELSE pc' = "rejected" /\ game_state' = NoState /\ error' = "ValueError"
    /\ UNCHANGED <<result, branch, equity, sim, odds_calls>>
    /\ UNCHANGED <<ranges_vars, mc_vars>>

\* A recommendation that empties the caller's snapshot as it is delivered.
Recommend_consumes_snapshot ==
    /\ pc = "ready"
    /\ \E sim_run \in SimulatorRuns(game_state) :
        \E b \in {recommend_action(game_state, sim_run)} :
            /\ pc' = IF b.raised THEN "failed" ELSE "done"
            /\ error' = IF b.raised THEN "ValueError" ELSE "none"
            /\ result' = IF b.raised THEN NoResult ELSE Returned(game_state, b)
            /\ branch' = IF b.raised THEN NoBranch
                         ELSE [action |-> b.action, amount |-> b.amount, adjust |-> b.adjust]
            /\ equity' = b.equity
            /\ sim' = [status |-> b.run.status, shuffles |-> b.run.shuffles,
                       opponents |-> b.run.opponents]
            /\ odds_calls' = b.odds
    /\ game_state' = [game_state EXCEPT !.hole_cards = <<>>, !.board = <<>>]
    /\ UNCHANGED <<ranges_vars, mc_vars>>

\* DecisionEngine.recommend_action(game_state): one call; sim_run is what the
\* simulator's random trials come to if the branch consults it.
Recommend ==
    /\ pc = "ready"
    /\ \E sim_run \in SimulatorRuns(game_state) :
        \E b \in {recommend_action(game_state, sim_run)} :
            /\ IF b.raised
               THEN pc' = "failed" /\ error' = "ValueError" /\ result' = NoResult
                    /\ branch' = NoBranch
               ELSE pc' = "done" /\ error' = "none" /\ result' = Returned(game_state, b)
                    /\ branch' = [action |-> b.action, amount |-> b.amount, adjust |-> b.adjust]
            /\ equity' = b.equity
            /\ sim' = [status |-> b.run.status, shuffles |-> b.run.shuffles,
                       opponents |-> b.run.opponents]
            /\ odds_calls' = b.odds
    /\ UNCHANGED game_state
    /\ UNCHANGED <<ranges_vars, mc_vars>>

\* The snapshot is dropped once the recommendation (or the failure) is delivered.
Discard ==
    /\ pc \in {"rejected", "done", "failed"}
    /\ pc' = "idle"
    /\ game_state' = NoState
    /\ result' = NoResult
    /\ error' = "none"
    /\ branch' = NoBranch
    /\ equity' = Rat(0, 1)
    /\ sim' = [status |-> "unused", shuffles |-> 0, opponents |-> 0]
    /\ odds_calls' = 0
    /\ UNCHANGED <<ranges_vars, mc_vars>>

Next == NewGameState \/ Recommend \/ Discard

Spec == Init /\ [][Next]_vars

\* ------------------------------------------------------------------ range table calls
\* Every label normalize_hand can give.
AllLabels == {combo_label(c1, c2) : c1, c2 \in Deck}

\* Labels as a caller may write them: canonical, all upper case, all lower case,
\* lower rank first, too short, too long.
RawLabels ==
    AllLabels \cup {Upper(l) : l \in AllLabels} \cup {Lower(l) : l \in AllLabels}
        \cup { <<"K", "A", "s">>, <<"A">>, <<"A", "K", "s", "s">> }

\* Card shorthands as a caller may write them: str(card), its lower case, and
\* two that name no card.
CardTexts ==
    {CardStr(c) : c \in Deck} \cup {Lower(CardStr(c)) : c \in Deck}
        \cup { <<"1", "s">>, <<"A", "x">> }

\* PreflopRanges.should_open(hand, position), called directly.
ShouldOpen ==
    /\ ranges_pc = "idle"
    /\ \E hand \in RawLabels, position \in Positions :
        /\ ranges_query' = [method |-> "should_open", hand |-> hand, position |-> position,
                            card1_str |-> <<>>, card2_str |-> <<>>]
        /\ IF normalize_combo_literal(hand) = NoLabel
           THEN ranges_pc' = "raised" /\ ranges_answer' = NoAnswer
           ELSE /\ ranges_pc' = "returned"
                /\ ranges_answer' = [open |-> should_open(hand, position), label |-> <<>>]
    /\ UNCHANGED <<engine_vars, mc_vars>>

\* PreflopRanges.should_3bet(hand, position), called directly.
Should3Bet ==
    /\ ranges_pc = "idle"
    /\ \E hand \in RawLabels, position \in Positions :
        /\ ranges_query' = [method |-> "should_3bet", hand |-> hand, position |-> position,
                            card1_str |-> <<>>, card2_str |-> <<>>]
        /\ IF normalize_combo_literal(hand) = NoLabel
           THEN ranges_pc' = "raised" /\ ranges_answer' = NoAnswer
           ELSE /\ ranges_pc' = "returned"
                /\ ranges_answer' = [open |-> should_3bet(hand, position), label |-> <<>>]
    /\ UNCHANGED <<engine_vars, mc_vars>>

\* PreflopRanges.normalize_hand(card1_str, card2_str), called directly.
NormalizeHand ==
    /\ ranges_pc = "idle"
    /\ \E card1_str, card2_str \in CardTexts :
        /\ ranges_query' = [method |-> "normalize_hand", hand |-> <<>>, position |-> "none",
                            card1_str |-> card1_str, card2_str |-> card2_str]
        /\ \E label \in {normalize_hand(card1_str, card2_str)} :
            IF label = NoLabel
            THEN ranges_pc' = "raised" /\ ranges_answer' = NoAnswer
            ELSE ranges_pc' = "returned" /\ ranges_answer' = [open |-> FALSE, label |-> label]
    /\ UNCHANGED <<engine_vars, mc_vars>>

\* The caller is done with the answer (or the failure).
ForgetAnswer ==
    /\ ranges_pc \in {"returned", "raised"}
    /\ ranges_pc' = "idle"
    /\ ranges_query' = NoQuery
    /\ ranges_answer' = NoAnswer
    /\ UNCHANGED <<engine_vars, mc_vars>>

RangesNext == ShouldOpen \/ Should3Bet \/ NormalizeHand \/ ForgetAnswer

RangesSpec == Init /\ [][RangesNext]_vars

\* ------------------------------------------------------------------ properties
\* What the claims read off a state.  Each threshold and size is written out
\* from the claim's own words, in whole-number form, not through the engine's
\* operators.
ActionTypes == {"fold", "check", "call", "bet", "raise", "all_in"}

Returns == pc = "done"

Preflop == game_state.street = "PREFLOP"

Pot == game_state.pot_size

Bet == game_state.bet_to_call

Stack == game_state.your_stack

\* Hero's effective stack: the least of hero's stack and every opponent stack.
EffStack ==
    LET all == {Stack} \cup {game_state.opponent_stacks[i] : i \in 1..Len(game_state.opponent_stacks)}
    IN  CHOOSE m \in all : \A x \in all : m <= x

\* effective stack <= max(1.5 pot, bet_to_call), doubled to stay in whole numbers.
ShortStacked == 2 * EffStack <= Max(3 * Pot, 2 * Bet)

\* Opponents beyond the first: adj = 0.05 * ExtraOpponents.
ExtraOpponents == Max(0, game_state.active_opponents - 1)

\* equity >= num/den, for den > 0.
EquityAtLeast(num, den) == equity.n * den >= num * equity.d

HeroCombo == normalize_hand(CardStr(game_state.hole_cards[1]), CardStr(game_state.hole_cards[2]))

PremiumCombos == { <<"A", "A">>, <<"K", "K">>, <<"Q", "Q">>, <<"A", "K", "s">>, <<"A", "K", "o">> }

StrongCombos ==
    { <<"J", "J">>, <<"T", "T">>, <<"9", "9">>, <<"A", "Q", "s">>, <<"A", "J", "s">>,
      <<"A", "Q", "o">>, <<"K", "Q", "s">> }

SpeculativeCombos ==
    { <<"A", "T", "s">>, <<"K", "J", "s">>, <<"Q", "J", "s">>, <<"J", "T", "s">>,
      <<"T", "9", "s">>, <<"9", "8", "s">>, <<"8", "7", "s">>, <<"A", "5", "s">>,
      <<"A", "4", "s">>, <<"A", "3", "s">>, <<"A", "2", "s">>, <<"K", "T", "s">>,
      <<"Q", "T", "s">> }

\* The nominal action is one the engine returns as it stands: a fold, a check,
\* or the preflop open-raise.
NominalStands ==
    \/ branch.action \in {"fold", "check"}
    \/ branch.action = "raise" /\ Preflop /\ Bet = 0

C2_AmountWithinStack ==
    Returns =>
        /\ 0 <= result.amount /\ result.amount <= Stack
        /\ result.action \in {"fold", "check"} => result.amount = 0

\* An open-raise cut down to hero's whole stack without the override.
C2_Witness ==
    /\ Returns /\ Preflop /\ Bet = 0
    /\ result.action = "raise" /\ result.amount = Stack /\ Stack > 0

\* C3: a call on a Hand Context with two hole cards ends with a recognized
\* action, an amount and at least one rationale line, never with an error;
\* the same holds of every result the call can have from a waiting context.
C3_CompleteResult ==
    /\ (pc \in {"done", "failed"} /\ Len(game_state.hole_cards) = 2) =>
          /\ pc = "done" /\ error = "none"
          /\ result.action \in ActionTypes
          /\ result.amount \in Int
          /\ Len(result.reasoning) >= 1
    /\ (pc = "ready" /\ Len(game_state.hole_cards) = 2) =>
          /\ SimulatorRuns(game_state) # {}
          /\ \A sim_run \in SimulatorRuns(game_state) :
                ~recommend_action(game_state, sim_run).raised

\* A preflop call carrying a flop, decided although the simulation was infeasible.
C3_Witness ==
    /\ Returns /\ Preflop /\ Len(game_state.board) = 3
    /\ sim.status = "raised"
    /\ result.action \in ActionTypes /\ Len(result.reasoning) >= 1

\* C4: with no or one hole card the call fails with a validation error before
\* any branch, odds computation or simulation; nothing is returned.
C4_RejectsWrongHoleCount ==
    (pc \in {"done", "failed"} /\ Len(game_state.hole_cards) # 2) =>
        /\ pc = "failed" /\ error = "ValueError"
        /\ result = NoResult /\ branch = NoBranch
        /\ sim.status = "unused" /\ sim.shuffles = 0
        /\ odds_calls = 0

C4_Witness == pc = "failed" /\ Len(game_state.hole_cards) = 1 /\ ~Preflop

\* The open-raise size of C5, min(2.7 * inferred big blind, stack), times 30.
OpenRaiseTimes30 ==
    IF Pot > 0 THEN Min(27 * Max(3 * Chip, 2 * Pot), 30 * Stack)
    ELSE Min(27 * 30 * Chip, 30 * Stack)

\* C5: preflop, unopened and above the short-stack threshold, the call raises
\* min(2.7 * inferred big blind, stack) exactly when the combo is in the
\* position's opening range and folds for 0 otherwise, without consulting the
\* simulator, whatever the number of opponents.
C5_OpenOrFold ==
    (Returns /\ Preflop /\ Bet = 0 /\ ~ShortStacked) =>
        /\ sim.status = "unused"
        /\ IF HeroCombo \in OPENING_RANGES[game_state.your_position]
           THEN result.action = "raise" /\ 30 * result.amount = OpenRaiseTimes30
           ELSE result.action = "fold" /\ result.amount = 0

\* An open-raise from a pot above 1.5 chips, below hero's stack.
C5_Witness ==
    /\ Returns /\ Preflop /\ Bet = 0 /\ ~ShortStacked
    /\ 2 * Pot > 3 * Chip
    /\ result.action = "raise" /\ result.amount < Stack
    /\ game_state.your_position = "CO" /\ HeroCombo = <<"J", "T", "s">>

\* C6: preflop facing a bet with AA, KK, QQ, AKs or AKo the call raises
\* min(3 * bet_to_call, stack), or goes all-in for the effective stack when
\* short-stacked, and the simulator is not consulted.
C6_PremiumAlwaysRaises ==
    (Returns /\ Preflop /\ Bet > 0 /\ HeroCombo \in PremiumCombos) =>
        /\ sim.status = "unused"
        /\ branch.action = "raise"
        /\ IF ShortStacked
           THEN result.action = "all_in" /\ result.amount = EffStack
           ELSE result.action = "raise" /\ result.amount = Min(3 * Bet, Stack)

\* AKs, dealt king first, 3-bets among more opponents than the simulator could serve.
C6_Witness ==
    /\ Returns /\ Preflop /\ Bet > 0 /\ HeroCombo = <<"A", "K", "s">>
    /\ game_state.active_opponents = MaxOpponents
    /\ result.action = "raise" /\ result.amount = 3 * Bet

\* The thresholds of C7 as whole-number comparisons: required_equity is
\* (100 bet + 5 extra (pot + bet)) / (100 (pot + bet)), the raise bar adds 0.10,
\* the implied odds are 2 bet / (3 pot + 2 bet).
C7_ClearsRequired == EquityAtLeast(100 * Bet + 5 * ExtraOpponents * (Pot + Bet), 100 * (Pot + Bet))

C7_ClearsRaiseBar ==
    EquityAtLeast(100 * Bet + (5 * ExtraOpponents + 10) * (Pot + Bet), 100 * (Pot + Bet))

C7_ClearsImplied == EquityAtLeast(2 * Bet, 3 * Pot + 2 * Bet)

\* C7: preflop facing a bet with a non-premium combo, the simulator is asked
\* about max(1, active_opponents) opponents and the branch decides: strong tier
\* raise at required + 0.10, call at required; speculative tier call at the
\* implied odds; everything else folds for 0.
C7_TierThresholds ==
    (Returns /\ Preflop /\ Bet > 0 /\ HeroCombo \notin PremiumCombos) =>
        /\ sim.status # "unused"
        /\ sim.opponents = Max(1, game_state.active_opponents)
        /\ IF HeroCombo \in StrongCombos /\ C7_ClearsRaiseBar THEN branch.action = "raise"
           ELSE IF HeroCombo \in StrongCombos /\ C7_ClearsRequired THEN branch.action = "call"
           ELSE IF HeroCombo \in SpeculativeCombos /\ C7_ClearsImplied THEN branch.action = "call"
           ELSE branch.action = "fold" /\ result.action = "fold" /\ result.amount = 0

\* A speculative call that the implied odds justify and the pot odds would not.
C7_Witness ==
    /\ Returns /\ Preflop /\ Bet > 0 /\ HeroCombo = <<"J", "T", "s">>
    /\ branch.action = "call"
    /\ ~EquityAtLeast(Bet, Pot + Bet)

\* C8: postflop, no bet facing hero and above the short-stack threshold:
\* equity >= 0.65 + adj bets min(0.6 pot, stack); else equity >= 0.45 + adj bets
\* min(0.4 pot, stack) when that is positive and checks when it is zero; else check.
C8_PostflopUnopened ==
    (Returns /\ ~Preflop /\ Bet = 0 /\ ~ShortStacked) =>
        IF EquityAtLeast(65 + 5 * ExtraOpponents, 100)
        THEN result.action = "bet" /\ 10 * result.amount = Min(6 * Pot, 10 * Stack)
        ELSE IF EquityAtLeast(45 + 5 * ExtraOpponents, 100)
        THEN IF Min(4 * Pot, 10 * Stack) > 0
             THEN result.action = "bet" /\ 10 * result.amount = Min(4 * Pot, 10 * Stack)
             ELSE result.action = "check" /\ result.amount = 0
        ELSE result.action = "check" /\ result.amount = 0

\* A small bet of 40% of the pot on middling equity.
C8_Witness ==
    /\ Returns /\ ~Preflop /\ Bet = 0 /\ ~ShortStacked /\ Pot > 0
    /\ ~EquityAtLeast(65 + 5 * ExtraOpponents, 100)
    /\ result.action = "bet" /\ 10 * result.amount = 4 * Pot

\* required_equity of C9: (115 bet + 5 extra (pot + bet)) / (100 (pot + bet)).
C9_ClearsRequired == EquityAtLeast(115 * Bet + 5 * ExtraOpponents * (Pot + Bet), 100 * (Pot + Bet))

\* C9: postflop facing a bet the branch raises min(max(2.5 bet, 0.8 pot), stack)
\* when equity clears required_equity and 0.70 + adj, calls when it clears only
\* required_equity, and folds for 0 below required_equity.
C9_PostflopFacingBet ==
    (Returns /\ ~Preflop /\ Bet > 0) =>
        IF C9_ClearsRequired /\ EquityAtLeast(70 + 5 * ExtraOpponents, 100)
        THEN branch.action = "raise"
             /\ 10 * branch.amount = Min(Max(25 * Bet, 8 * Pot), 10 * Stack)
        ELSE IF C9_ClearsRequired THEN branch.action = "call"
        ELSE branch.action = "fold" /\ result.action = "fold" /\ result.amount = 0

\* A fold below required_equity with equity at or above the raise bar.
C9_Witness ==
    /\ Returns /\ ~Preflop /\ Bet > 0
    /\ EquityAtLeast(70 + 5 * ExtraOpponents, 100)
    /\ result.action = "fold" /\ result.amount = 0

\* The deck cannot serve the trials: (5 - board) + 2 max(1, active) cards are
\* needed and 52 - 2 - board are left.
Infeasible ==
    (5 - Len(game_state.board)) + 2 * Max(1, game_state.active_opponents)
        > 52 - 2 - Len(game_state.board)

\* C10: a call that consults the simulator on an infeasible request ends
\* normally, with the simulator's failure recorded, no trial run, and equity 0
\* in place of the estimate.
C10_FailureBecomesZeroEquity ==
    /\ (pc \in {"done", "failed"} /\ sim.status # "unused" /\ Infeasible) => sim.status = "raised"
    /\ (pc \in {"done", "failed"} /\ sim.status = "raised") =>
          /\ pc = "done" /\ error = "none"
          /\ sim.shuffles = 0
          /\ equity.n = 0 /\ equity.d > 0
          /\ result.action \in ActionTypes /\ Len(result.reasoning) >= 1

\* A flop decision taken on equity 0 after the simulator refused the request.
C10_Witness ==
    /\ Returns /\ game_state.street = "FLOP" /\ Infeasible
    /\ sim.status = "raised" /\ equity.n = 0
    /\ result.action \in {"check", "fold"}

\* ------------------------------------------------------------------ simulator calls
\* Seeds a caller may give a random source, and the system a fresh one.
MaxSeed == 2

Seeds == 0..MaxSeed

SimulatorHeroHands == { <<As>>, <<As, Ad>>, <<Ks, As>>, <<As, As>>, <<As, Ad, Ks>> }

\* From a refused count to the first count the deck cannot serve.
SimulatorOpponentCounts == {-1, 0, 1, 2, MaxOpponents - 1, MaxOpponents}

\* MonteCarloSimulator(num_simulations, rng=...): refused for a trial count of 0
\* or less; rng_seed is the seed of the source passed in, or NoSeed for none.
NewSimulator ==
    /\ simulator.pc = "none"
    /\ \E num_simulations \in -1..NumSimulations, rng_seed \in Seeds \cup {NoSeed}, entropy \in Seeds :
        simulator' =
            IF num_simulations <= 0
            THEN [NoSimulator EXCEPT !.pc = "rejected", !.num_simulations = num_simulations]
            ELSE [pc |-> "ready", num_simulations |-> num_simulations, rng_seed |-> rng_seed,
                  rng |-> choose_rng(rng_seed, entropy), shuffles |-> 0]
    /\ UNCHANGED <<run, previous, engine_vars, ranges_vars>>

\* simulate_equity up to the loop: the checks, then base_deck, wins = 0, ties = 0.
begin_run(hero_cards, board, num_opponents) ==
    IF simulate_equity_accepts(hero_cards, board, num_opponents)
    THEN [NoRun EXCEPT !.pc = "loop", !.hero_cards = hero_cards, !.board = board,
                       !.num_opponents = num_opponents,
                       !.base_deck = create_deck(hero_cards \o board)]
    ELSE [NoRun EXCEPT !.pc = "raised", !.hero_cards = hero_cards, !.board = board,
                       !.num_opponents = num_opponents]

\* simulator.simulate_equity(hero_cards, board, num_opponents) is called.
SimulateEquity ==
    /\ simulator.pc = "ready" /\ run.pc = "none"
    /\ \E hero_cards \in SimulatorHeroHands, board \in Boards,
          num_opponents \in SimulatorOpponentCounts :
        run' = begin_run(hero_cards, board, num_opponents)
    /\ UNCHANGED <<simulator, previous, engine_vars, ranges_vars>>

\* One pass of the loop up to hero's rank: copy the deck, shuffle the copy,
\* complete the board from its front, evaluate hero.
StartTrial ==
    /\ run.pc = "loop" /\ run.trial < simulator.num_simulations
    /\ \E s \in {shuffle(run.base_deck, simulator.rng)} :
        \E d \in {deal(s.deck, Max(0, 5 - Len(run.board)))} :
            \E hero_rank \in {evaluate_hand(run.hero_cards, run.board \o d.cards)} :
                /\ simulator' = [simulator EXCEPT !.rng = s.rng, !.shuffles = @ + 1]
                /\ run' = [run EXCEPT !.pc = IF hero_rank = 0 THEN "raised" ELSE "dealing",
                                      !.shuffled = s.deck,
                                      !.sim_board = run.board \o d.cards,
                                      !.deck = d.rest,
                                      !.hero_rank = hero_rank,
                                      !.opponent_hands = <<>>,
                                      !.opponent_ranks = <<>>]
    /\ UNCHANGED <<previous, engine_vars, ranges_vars>>

\* One pass of the inner loop: two cards off the deck for the next opponent,
\* or the failure on a deck of fewer than two.
DealOpponent ==
    /\ run.pc = "dealing" /\ Len(run.opponent_ranks) < run.num_opponents
    /\ \E d \in {deal(run.deck, 2)} :
        \E opponent_rank \in {evaluate_hand(d.cards, run.sim_board)} :
            run' = IF Len(run.deck) < 2 \/ opponent_rank = 0
                   THEN [run EXCEPT !.pc = "raised"]
                   ELSE [run EXCEPT !.deck = d.rest,
                                    !.opponent_hands = Append(@, d.cards),
                                    !.opponent_ranks = Append(@, opponent_rank)]
    /\ UNCHANGED <<simulator, previous, engine_vars, ranges_vars>>

\* The end of the pass: the best opponent rank, and the counter it moves.
EndTrial ==
    /\ run.pc = "dealing" /\ Len(run.opponent_ranks) >= run.num_opponents
    /\ run' = IF Len(run.opponent_ranks) = 0 THEN [run EXCEPT !.pc = "raised"]
              ELSE [run EXCEPT !.pc = "loop", !.trial = @ + 1,
                               !.wins = IF tally(run.hero_rank, run.opponent_ranks) = "win"
                                        THEN @ + 1 ELSE @,
                               !.ties = IF tally(run.hero_rank, run.opponent_ranks) = "tie"
                                        THEN @ + 1 ELSE @]
    /\ UNCHANGED <<simulator, previous, engine_vars, ranges_vars>>

\* return (wins + 0.5 * ties) / self.num_simulations.
ReturnEquity ==
    /\ run.pc = "loop" /\ run.trial >= simulator.num_simulations
    /\ run' = [run EXCEPT !.pc = "returned",
                          !.equity = Rat(2 * run.wins + run.ties, 2 * simulator.num_simulations)]
    /\ UNCHANGED <<simulator, previous, engine_vars, ranges_vars>>

\* The caller keeps the result and makes the same run once more on a new
\* simulator, built with the same trial count and the same rng argument.
RunAgain ==
    /\ run.pc = "returned" /\ ~previous.seen
    /\ previous' = [seen |-> TRUE, wins |-> run.wins, ties |-> run.ties, equity |-> run.equity]
    /\ \E entropy \in Seeds :
        simulator' = [simulator EXCEPT !.rng = choose_rng(simulator.rng_seed, entropy),
                                       !.shuffles = 0]
    /\ run' = begin_run(run.hero_cards, run.board, run.num_opponents)
    /\ UNCHANGED <<engine_vars, ranges_vars>>

\* The caller lets go of the simulator and of what it returned.
DiscardSimulator ==
    /\ simulator.pc = "rejected" \/ run.pc \in {"returned", "raised"}
    /\ simulator' = NoSimulator
    /\ run' = NoRun
    /\ previous' = NoPrevious
    /\ UNCHANGED <<engine_vars, ranges_vars>>

SimulatorNext ==
    \/ NewSimulator \/ SimulateEquity \/ StartTrial \/ DealOpponent \/ EndTrial
    \/ ReturnEquity \/ RunAgain \/ DiscardSimulator

SimulatorSpec == Init /\ [][SimulatorNext]_vars

\* simulate_equity is one sequential call: once it is in its loop, the next
\* statement of the loop is executed, and so is the return after the last pass.
SimulatorFairSpec ==
    /\ SimulatorSpec
    /\ WF_vars(StartTrial) /\ WF_vars(DealOpponent)
    /\ WF_vars(EndTrial) /\ WF_vars(ReturnEquity)

\* ------------------------------------------------------------------ Hand Context contract
\* A snapshot is held: construction returned, whatever happened afterwards.
Constructed == pc \in {"ready", "done", "failed"}

HeldCards == game_state.hole_cards \o game_state.board

NoCardTwice == \A i, j \in 1..Len(HeldCards) : HeldCards[i] = HeldCards[j] => i = j

NoNegativeField ==
    /\ Pot >= 0 /\ Bet >= 0 /\ Stack >= 0
    /\ \A i \in 1..Len(game_state.opponent_stacks) : game_state.opponent_stacks[i] >= 0
    /\ game_state.num_opponents >= 0 /\ game_state.active_opponents >= 0

\* C14: every snapshot that construction yields has no card twice, no negative
\* pot, bet, stack, opponent stack or opponent count, no more active than total
\* opponents, at most 2 hole cards and at most 5 board cards; a construction
\* that fails raises the validation error and leaves no snapshot at all.
C14_ConstructionFailsFast ==
    /\ Constructed =>
        /\ NoCardTwice
        /\ NoNegativeField
        /\ game_state.active_opponents <= game_state.num_opponents
        /\ Len(game_state.hole_cards) <= 2
        /\ Len(game_state.board) <= 5
    /\ pc = "rejected" =>
        /\ game_state = NoState /\ error = "ValueError"
        /\ result = NoResult /\ branch = NoBranch

\* A snapshot at the limits: two hole cards, five board cards, an empty pot, as
\* many active opponents as there are opponents.
C14_Witness ==
    /\ pc = "ready"
    /\ Len(game_state.hole_cards) = 2 /\ Len(game_state.board) = 5
    /\ Pot = 0 /\ Stack = 0
    /\ game_state.active_opponents = game_state.num_opponents
    /\ game_state.num_opponents = MaxOpponents

\* C15 as stated: every constructed snapshot holds exactly 0 or exactly 2 hole
\* cards; a snapshot with a single hole card cannot be constructed.
C15_ZeroOrTwoHoleCards == Constructed => Len(game_state.hole_cards) \in {0, 2}

\* C15: every constructed snapshot holds 0, 1 or 2 hole cards; a snapshot with
\* one hole card is constructed, and it is recommend_action that refuses it.
C15_AtMostTwoHoleCards ==
    /\ Constructed => Len(game_state.hole_cards) \in {0, 1, 2}
    /\ (pc \in {"done", "failed"} /\ Len(game_state.hole_cards) = 1) => pc = "failed"

C15_Witness == pc = "ready" /\ Len(game_state.hole_cards) = 1

\* C16: for every snapshot the derived pot_odds and calculate_pot_odds agree,
\* both bet_to_call / (pot_size + bet_to_call) when a bet is faced and 0 when
\* none is, and the derived effective stack is the least of hero's stack and
\* the opponents' stacks.
C16_DerivedValuesAgree ==
    Constructed =>
        /\ calculate_pot_odds(game_state).ok
        /\ calculate_pot_odds(game_state).value = pot_odds(game_state)
        /\ Bet > 0 => pot_odds(game_state).n * (Pot + Bet) = Bet * pot_odds(game_state).d
        /\ Bet = 0 => pot_odds(game_state).n = 0
        /\ effective_stack(game_state) = EffStack

\* A pot of twice the bet, so odds of one in three, and an opponent shorter than hero.
C16_Witness ==
    /\ pc = "ready"
    /\ Bet = Chip /\ Pot = 2 * Chip
    /\ pot_odds(game_state).n * 3 = pot_odds(game_state).d
    /\ game_state.opponent_stacks = <<Chip>> /\ Stack = 2 * Chip
    /\ effective_stack(game_state) = Chip

\* C19: a recommendation call leaves the Hand Context it was given as it was,
\* whether it returns or fails.  (The range tables, the tier sets and the trial
\* count are definitions here, as they are class constants and a value fixed
\* at construction in the source: no action can assign to them.)
C19_CallLeavesContext == [][pc = "ready" => game_state' = game_state]_vars

\* A call has returned after the simulator ran its trials, and the snapshot is
\* still the valid two-card one that was passed in.
C19_Witness ==
    /\ pc = "done" /\ sim.status = "ran" /\ sim.shuffles > 0
    /\ Len(game_state.hole_cards) = 2 /\ game_state.street # "none"

\* ------------------------------------------------------------------ range table contract
\* The label with its first two characters in upper case and its third, if
\* any, in lower case.
CaseNormalized(label) ==
    [i \in 1..Len(label) |-> IF i <= 2 THEN UpperChar(label[i]) ELSE LowerChar(label[i])]

AskedLabel == CaseNormalized(ranges_query.hand)

\* C17: should_open answers exactly whether the case-normalized label is in the
\* position's opening set; it answers yes to "AA" at every position and no to
\* "72o" at every position, however the caller writes the label's case.
C17_OpeningMembership ==
    (ranges_pc = "returned" /\ ranges_query.method = "should_open") =>
        /\ ranges_answer.open <=> AskedLabel \in OPENING_RANGES[ranges_query.position]
        /\ AskedLabel = <<"A", "A">> => ranges_answer.open
        /\ AskedLabel = <<"7", "2", "o">> => ~ranges_answer.open

\* "aa" asked at the narrowest position, answered yes.
C17_Witness ==
    /\ ranges_pc = "returned" /\ ranges_query.method = "should_open"
    /\ ranges_query.hand = <<"a", "a">> /\ ranges_query.position = "UTG"
    /\ ranges_answer.open

\* The card a shorthand names, read without regard to case.
NamedCard(text) == CHOOSE c \in Deck : Upper(CardStr(c)) = Upper(text)

FirstCard == NamedCard(ranges_query.card1_str)

SecondCard == NamedCard(ranges_query.card2_str)

\* The canonical label of two cards: rank characters, higher first, then
\* nothing for a pair, "s" for one suit, "o" for two.
CanonicalLabel(c1, c2) ==
    IF c1.rank = c2.rank THEN <<RANK_DISPLAY[c1.rank], RANK_DISPLAY[c2.rank]>>
    ELSE <<RANK_DISPLAY[Max(c1.rank, c2.rank)], RANK_DISPLAY[Min(c1.rank, c2.rank)],
           IF c1.suit = c2.suit THEN "s" ELSE "o">>

\* C18: for two distinct cards normalize_hand gives the canonical label, and
\* gives the same label with the cards in the other order.
C18_NormalizeCanonical ==
    (ranges_pc = "returned" /\ ranges_query.method = "normalize_hand"
        /\ FirstCard # SecondCard) =>
        /\ ranges_answer.label = CanonicalLabel(FirstCard, SecondCard)
        /\ ranges_answer.label = normalize_hand(ranges_query.card2_str, ranges_query.card1_str)

\* The king of spades before the ace of diamonds: "AKo".
C18_Witness ==
    /\ ranges_pc = "returned" /\ ranges_query.method = "normalize_hand"
    /\ ranges_query.card1_str = <<"K", "s">> /\ ranges_query.card2_str = <<"A", "d">>
    /\ ranges_answer.label = <<"A", "K", "o">>

\* ------------------------------------------------------------------ simulator contract
\* The call got past its checks and into the loop.
InTrials == run.pc \in {"loop", "dealing", "returned"}

HeroBelowAll == \A i \in 1..Len(run.opponent_ranks) : run.hero_rank < run.opponent_ranks[i]

HeroLevelWithBest ==
    /\ \A i \in 1..Len(run.opponent_ranks) : run.hero_rank <= run.opponent_ranks[i]
    /\ \E i \in 1..Len(run.opponent_ranks) : run.hero_rank = run.opponent_ranks[i]

\* C11: each trial moves exactly one count: wins when hero's rank is below
\* every opponent's, ties when it equals the lowest, neither (a loss)
\* otherwise; so wins + ties never exceeds the trials run, and the equity
\* returned is (wins + 0.5 ties) / trials, between 0 and 1.
C11_TrialsCounted ==
    /\ [](InTrials =>
            /\ run.wins >= 0 /\ run.ties >= 0
            /\ run.trial - run.wins - run.ties >= 0
            /\ run.trial <= simulator.num_simulations)
    /\ [](run.pc = "returned" =>
            /\ run.trial = simulator.num_simulations
            /\ run.equity.n = 2 * run.wins + run.ties
            /\ run.equity.d = 2 * run.trial
            /\ 0 <= run.equity.n /\ run.equity.n <= run.equity.d)
    /\ [][run'.trial = run.trial + 1 =>
            /\ HeroBelowAll => run'.wins = run.wins + 1 /\ run'.ties = run.ties
            /\ HeroLevelWithBest => run'.wins = run.wins /\ run'.ties = run.ties + 1
            /\ (~HeroBelowAll /\ ~HeroLevelWithBest) =>
                   run'.wins = run.wins /\ run'.ties = run.ties]_vars

\* Two trials: one won, one lost.
C11_Witness ==
    /\ run.pc = "returned" /\ Len(run.opponent_ranks) = run.num_opponents
    /\ run.trial = 2 /\ run.wins = 1 /\ run.ties = 0

\* C12: the same run made again on a simulator given a source of the same seed
\* returns the same equity, from the same wins and ties.
C12_SeedReproduces ==
    (run.pc = "returned" /\ previous.seen /\ simulator.rng_seed # NoSeed) =>
        /\ run.equity = previous.equity
        /\ run.wins = previous.wins /\ run.ties = previous.ties

\* A seeded run of two trials, one of them won, made twice.
C12_Witness ==
    /\ run.pc = "returned" /\ previous.seen /\ simulator.rng_seed = 1
    /\ simulator.shuffles = 2 /\ run.wins = 1
    /\ run.equity = previous.equity

KnownCards == run.hero_cards \o run.board

NoKnownCardTwice == \A i, j \in 1..Len(KnownCards) : KnownCards[i] = KnownCards[j] => i = j

\* What simulate_equity accepts: two hero cards, at most five board cards, at
\* least one opponent, no card twice, and a remaining deck that can complete
\* the board and deal every opponent two cards.
AcceptableCall ==
    /\ Len(run.hero_cards) = 2
    /\ Len(run.board) <= 5
    /\ run.num_opponents >= 1
    /\ NoKnownCardTwice
    /\ 52 - Len(KnownCards) >= (5 - Len(run.board)) + 2 * run.num_opponents

\* C13: only an acceptable call reaches the trials; every other call fails
\* before any trial or shuffle, with its arguments as they were given; and no
\* simulator exists with a trial count of 0 or less.
C13_RejectsBeforeTrials ==
    /\ InTrials => AcceptableCall
    /\ run.pc = "raised" =>
        /\ ~AcceptableCall
        /\ run.trial = 0 /\ simulator.shuffles = 0 /\ run.base_deck = <<>>
    /\ simulator.pc = "ready" => simulator.num_simulations >= 1
    /\ simulator.pc = "rejected" => simulator.num_simulations <= 0 /\ run = NoRun

\* A call refused only because the deck cannot serve that many opponents.
C13_Witness ==
    /\ run.pc = "raised" /\ run.num_opponents = MaxOpponents
    /\ Len(run.hero_cards) = 2 /\ Len(run.board) = 3 /\ NoKnownCardTwice

CardsOf(cards) == {cards[i] : i \in 1..Len(cards)}

\* Every card dealt to an opponent so far in this trial, in the order dealt.
RECURSIVE Flatten(_)
Flatten(hands) == IF hands = <<>> THEN <<>> ELSE Head(hands) \o Flatten(Tail(hands))

BoardNeeded == 5 - Len(run.board)

\* C20: the working deck is the 52 cards without hero's cards and the known
\* board, and is that at every trial; each trial deals from a shuffled copy of
\* it, the missing board cards from the front and then two cards for each
\* opponent, so that hero's cards, the completed board and the opponents'
\* cards are pairwise distinct.
C20_DealsFromFreshCopy ==
    /\ InTrials =>
        /\ CardsOf(run.base_deck) = Deck \ CardsOf(KnownCards)
        /\ Len(run.base_deck) = 52 - Len(KnownCards)
    /\ (InTrials /\ (run.pc = "dealing" \/ run.trial > 0)) =>
        /\ CardsOf(run.shuffled) = CardsOf(run.base_deck)
        /\ Len(run.shuffled) = Len(run.base_deck)
        /\ run.sim_board = run.board \o SubSeq(run.shuffled, 1, BoardNeeded)
        /\ Flatten(run.opponent_hands)
               = SubSeq(run.shuffled, BoardNeeded + 1,
                        BoardNeeded + 2 * Len(run.opponent_hands))
        /\ run.deck = SubSeq(run.shuffled, BoardNeeded + 2 * Len(run.opponent_hands) + 1,
                             Len(run.shuffled))
        /\ Cardinality(CardsOf(run.hero_cards \o run.sim_board \o Flatten(run.opponent_hands)))
               = 2 + 5 + 2 * Len(run.opponent_hands)

\* The second trial of a run on an empty board, both opponents dealt.
C20_Witness ==
    /\ run.pc = "dealing" /\ run.trial = 1 /\ Len(run.board) = 0
    /\ run.num_opponents = 2 /\ Len(run.opponent_hands) = 2
    /\ Len(run.deck) = 52 - 2 - 5 - 4

\* ------------------------------------------------------------------ what the engine returns
\* C21: all-in is returned only at or below the short-stack threshold and only
\* for the effective stack; above the threshold the action is never all-in,
\* not even when the size asked for is hero's whole stack.
C21_AllInOnlyWhenShort ==
    Returns =>
        /\ result.action = "all_in" => ShortStacked /\ result.amount = EffStack
        /\ ~ShortStacked => result.action # "all_in"

\* A raise for hero's whole stack, above the threshold, returned as a raise.
C21_Witness ==
    /\ Returns /\ ~ShortStacked /\ Bet > 0
    /\ result.action = "raise" /\ result.amount = Stack

\* C22: check and bet are returned only postflop with no bet to call; call only
\* when a bet is faced; postflop with no bet the action is never fold, call or
\* raise; facing a bet it is never check or bet.
C22_ActionFitsSituation ==
    Returns =>
        /\ result.action \in {"check", "bet"} => ~Preflop /\ Bet = 0
        /\ result.action = "call" => Bet > 0
        /\ (~Preflop /\ Bet = 0) => result.action \notin {"fold", "call", "raise"}
        /\ Bet > 0 => result.action \notin {"check", "bet"}

\* A bet into an unopened pot on the river.
C22_Witness ==
    /\ Returns /\ game_state.street = "RIVER" /\ Bet = 0
    /\ result.action = "bet" /\ result.amount > 0

\* C23: a returned bet or raise is for more than 0 chips, an empty pot and an
\* empty stack included.
C23_PositiveBets == (Returns /\ result.action \in {"bet", "raise"}) => result.amount > 0

\* C24: a returned call is for exactly the bet hero faces; a stack no deeper
\* than the bet never calls, the override has made that call an all-in.
C24_CallMatchesBet ==
    Returns =>
        /\ result.action = "call" => result.amount = Bet
        /\ (Bet > 0 /\ Stack <= Bet) => result.action \in {"fold", "all_in"}

\* A call of the whole bet by a stack one chip deeper than it.
C24_Witness ==
    /\ Returns /\ result.action = "call" /\ result.amount = Bet
    /\ Stack = Bet + Chip

\* C25: a raise returned while a bet is faced is for more than that bet.
C25_RaiseExceedsBet ==
    (Returns /\ result.action = "raise" /\ Bet > 0) => result.amount > Bet

\* A preflop 3-bet cut down to the stack, still above the bet.
C25_Witness ==
    /\ Returns /\ Preflop /\ Bet > 0 /\ result.action = "raise"
    /\ result.amount = Stack /\ Stack < 3 * Bet

\* C26: a call that went on with equity 0 after the simulator refused commits
\* no chips: check for 0 postflop with no bet, fold for 0 facing a bet.
C26_NoChipsOnFailedEstimate ==
    (Returns /\ sim.status = "raised") =>
        /\ result.amount = 0
        /\ result.action \notin {"call", "bet", "raise", "all_in"}
        /\ (~Preflop /\ Bet = 0) => result.action = "check"
        /\ Bet > 0 => result.action = "fold"

\* A preflop fold of a strong hand facing a bet, the table too full to simulate.
C26_Witness ==
    /\ Returns /\ Preflop /\ Bet > 0 /\ sim.status = "raised"
    /\ HeroCombo = <<"J", "J">> /\ result.action = "fold"

\* ------------------------------------------------------------------ the run after its checks
\* The checks of simulate_equity have passed: base_deck is built right after them.
PassedChecks == run.pc # "none" /\ run.base_deck # <<>>

\* The cards the trial still has to deal: the opponents not yet served.
StillToDeal == 2 * (run.num_opponents - Len(run.opponent_ranks))

\* C27: once the up-front checks have passed the run raises nothing, an opponent
\* about to be dealt always finds two cards on the deck, the run returns after
\* exactly num_simulations trials, and a run in its loop does return.
C27_PassedRunCompletes ==
    /\ [](PassedChecks => run.pc # "raised")
    /\ []((run.pc = "dealing" /\ PassedChecks) => Len(run.deck) >= StillToDeal)
    /\ []((run.pc = "returned") =>
            /\ run.trial = simulator.num_simulations
            /\ simulator.shuffles = simulator.num_simulations)
    /\ ((run.pc \in {"loop", "dealing"}) ~> (run.pc = "returned"))

\* A returned run at the largest table the deck serves: one card was left over.
C27_Witness ==
    /\ run.pc = "returned" /\ PassedChecks
    /\ run.num_opponents = MaxOpponents - 1 /\ Len(run.board) = 0
    /\ Len(run.deck) = 1 /\ run.trial = simulator.num_simulations

\* ------------------------------------------------------------------ the range tables
\* The positions from the earliest to the latest to act.
PositionOrder == <<"UTG", "MP", "CO", "BTN", "SB", "BB">>

PositionIndex(p) == CHOOSE i \in 1..Len(PositionOrder) : PositionOrder[i] = p

LaterPositions(p) == {q \in Positions : PositionIndex(q) > PositionIndex(p)}

====
